---- MODULE Spec2Model ----
(***************************************************************************)
(* A model of secretly/_impl.py: the Assuan protocol speaker SimpleAssuan, *)
(* the pinentry selection, the prompt session askForPassword and the       *)
(* resolution loop secretly.                                               *)
(*                                                                         *)
(* Byte strings are sequences of one-byte strings; "CR" and "LF" stand for *)
(* the bytes 0x0D and 0x0A, "xFF" for a byte that is not valid UTF-8.      *)
(***************************************************************************)
EXTENDS Integers, Sequences, FiniteSets, TLC

\* ------------------------------------------------------------------ bounds
MaxLen == 3        \* longest payload of the codec specification
MaxCmds == 2       \* commands a free client issues on one connection
MaxLines == 4      \* lines a free peer sends on one connection
MaxNoise == 2      \* data, comment and other lines the pinentry sends in a session
MaxCand == 3       \* candidates given to choosePinentry on its own
MaxProcs == 2      \* resolutions that run concurrently

\* Python's None where a secret or a result is expected: no byte string
None == <<"None">>

\* what a call produced: a value returned or an exception raised
Return(v) == [kind |-> "return", value |-> v, error |-> ""]
Raise(e, v) == [kind |-> "raise", value |-> v, error |-> e]
NoOutcome == [kind |-> "none", value |-> <<>>, error |-> ""]

\* ------------------------------------------------------ byte-string helpers
RECURSIVE SeqsUpTo(_, _)
SeqsUpTo(S, n) ==
  IF n = 0 THEN {<<>>}
  ELSE LET shorter == SeqsUpTo(S, n - 1)
       IN shorter \cup {Append(s, c) : s \in {t \in shorter : Len(t) = n - 1}, c \in S}

startswith(line, prefix) ==
  /\ Len(line) >= Len(prefix)
  /\ SubSeq(line, 1, Len(prefix)) = prefix

\* bytes.replace(old, new): every non-overlapping occurrence, left to right
RECURSIVE replace(_, _, _)
replace(s, old, new) ==
  IF Len(s) < Len(old) THEN s
  ELSE IF startswith(s, old)
       THEN new \o replace(SubSeq(s, Len(old) + 1, Len(s)), old, new)
       ELSE <<Head(s)>> \o replace(Tail(s), old, new)

\* b''.join(fragments)
RECURSIVE join(_)
join(fragments) ==
  IF fragments = <<>> THEN <<>> ELSE Head(fragments) \o join(Tail(fragments))

\* the decoding of a D line's remainder with %25 replaced first
unescape_percentFirst(s) ==
  replace(replace(replace(s, <<"%", "2", "5">>, <<"%">>),
                  <<"%", "0", "A">>, <<"CR">>),
          <<"%", "0", "D">>, <<"LF">>)

\* line[2:].replace(b"%0A", b"\r").replace(b"%0D", b"\n").replace(b"%25", b"%")
unescape(s) ==
  replace(replace(replace(s, <<"%", "0", "A">>, <<"CR">>),
                  <<"%", "0", "D">>, <<"LF">>),
          <<"%", "2", "5">>, <<"%">>)

\* the peer's escaping of a payload: % as %25, CR as %0A, LF as %0D
escapeByte(c) ==
  IF c = "%" THEN <<"%", "2", "5">>
  ELSE IF c = "CR" THEN <<"%", "0", "A">>
  ELSE IF c = "LF" THEN <<"%", "0", "D">>
  ELSE <<c>>

RECURSIVE escape(_)
escape(s) == IF s = <<>> THEN <<>> ELSE escapeByte(Head(s)) \o escape(Tail(s))

\* ------------------------------------------------------------- SimpleAssuan
\* Deferreds are named by the order of their creation on the connection.

\* SimpleAssuan.__init__
NewAssuan == [ready |-> FALSE, dq |-> <<>>, bufferedData |-> <<>>]

\* the Deferred part of issueCommand: result = Deferred(); self._dq.append(result)
issueCommand(a, d) == [a EXCEPT !.dq = Append(@, d)]

\* _currentResponse: the AssuanResponse built from the buffered data
currentResponse(a, debugInfo) ==
  [data |-> join(a.bufferedData), debugInfo |-> debugInfo]

NoEvent == [kind |-> "none"]
IndexError == [kind |-> "IndexError"]

\* lineReceived with the oldest Deferred taken from the wrong end of the queue
lineReceived_popLast(a, line) ==
  IF startswith(line, <<"#">>) THEN [assuan |-> a, event |-> NoEvent]
  ELSE IF startswith(line, <<"O", "K">>) THEN
    IF a.ready THEN
      IF a.dq = <<>> THEN [assuan |-> a, event |-> IndexError]
      ELSE [assuan |-> [a EXCEPT !.dq = SubSeq(@, 1, Len(@) - 1), !.bufferedData = <<>>],
            event |-> [kind |-> "callback", d |-> a.dq[Len(a.dq)],
                       response |-> currentResponse(a, line)]]
    ELSE [assuan |-> [a EXCEPT !.ready = TRUE], event |-> NoEvent]
  ELSE IF startswith(line, <<"D", " ">>) THEN
    [assuan |-> [a EXCEPT !.bufferedData =
                   Append(@, unescape(SubSeq(line, 3, Len(line))))],
     event |-> NoEvent]
  ELSE IF startswith(line, <<"E", "R", "R">>) THEN
    IF a.dq = <<>> THEN [assuan |-> a, event |-> IndexError]
    ELSE [assuan |-> [a EXCEPT !.dq = SubSeq(@, 1, Len(@) - 1)],
          event |-> [kind |-> "errback", d |-> a.dq[Len(a.dq)], error |-> line]]
  ELSE [assuan |-> a, event |-> NoEvent]

\* lineReceived with the greeting treated as a reply
lineReceived_noGreeting(a, line) ==
  IF startswith(line, <<"#">>) THEN [assuan |-> a, event |-> NoEvent]
  ELSE IF startswith(line, <<"O", "K">>) THEN
    IF a.dq = <<>> THEN [assuan |-> [a EXCEPT !.ready = TRUE], event |-> NoEvent]
    ELSE [assuan |-> [a EXCEPT !.dq = Tail(@), !.bufferedData = <<>>],
          event |-> [kind |-> "callback", d |-> Head(a.dq),
                     response |-> currentResponse(a, line)]]
  ELSE IF startswith(line, <<"D", " ">>) THEN
    [assuan |-> [a EXCEPT !.bufferedData =
                   Append(@, unescape(SubSeq(line, 3, Len(line))))],
     event |-> NoEvent]
  ELSE IF startswith(line, <<"E", "R", "R">>) THEN
    IF a.dq = <<>> THEN [assuan |-> a, event |-> IndexError]
    ELSE [assuan |-> [a EXCEPT !.dq = Tail(@)],
          event |-> [kind |-> "errback", d |-> Head(a.dq), error |-> line]]
  ELSE [assuan |-> a, event |-> NoEvent]

\* lineReceived with any first line taken for the greeting
lineReceived_firstLineGreets(a, line) ==
  IF ~a.ready THEN [assuan |-> [a EXCEPT !.ready = TRUE], event |-> NoEvent]
  ELSE IF startswith(line, <<"#">>) THEN [assuan |-> a, event |-> NoEvent]
  ELSE IF startswith(line, <<"O", "K">>) THEN
    IF a.dq = <<>> THEN [assuan |-> a, event |-> IndexError]
    ELSE [assuan |-> [a EXCEPT !.dq = Tail(@), !.bufferedData = <<>>],
          event |-> [kind |-> "callback", d |-> Head(a.dq),
                     response |-> currentResponse(a, line)]]
  ELSE IF startswith(line, <<"D", " ">>) THEN
    [assuan |-> [a EXCEPT !.bufferedData =
                   Append(@, unescape(SubSeq(line, 3, Len(line))))],
     event |-> NoEvent]
  ELSE IF startswith(line, <<"E", "R", "R">>) THEN
    IF a.dq = <<>> THEN [assuan |-> a, event |-> IndexError]
    ELSE [assuan |-> [a EXCEPT !.dq = Tail(@)],
          event |-> [kind |-> "errback", d |-> Head(a.dq), error |-> line]]
  ELSE [assuan |-> a, event |-> NoEvent]

\* lineReceived with each data fragment put in front of the buffered ones
lineReceived_prependData(a, line) ==
  IF startswith(line, <<"#">>) THEN [assuan |-> a, event |-> NoEvent]
  ELSE IF startswith(line, <<"O", "K">>) THEN
    IF a.ready THEN
      IF a.dq = <<>> THEN [assuan |-> a, event |-> IndexError]
      ELSE [assuan |-> [a EXCEPT !.dq = Tail(@), !.bufferedData = <<>>],
            event |-> [kind |-> "callback", d |-> Head(a.dq),
                       response |-> currentResponse(a, line)]]
    ELSE [assuan |-> [a EXCEPT !.ready = TRUE], event |-> NoEvent]
  ELSE IF startswith(line, <<"D", " ">>) THEN
    [assuan |-> [a EXCEPT !.bufferedData =
                   <<unescape(SubSeq(line, 3, Len(line)))>> \o @],
     event |-> NoEvent]
  ELSE IF startswith(line, <<"E", "R", "R">>) THEN
    IF a.dq = <<>> THEN [assuan |-> a, event |-> IndexError]
    ELSE [assuan |-> [a EXCEPT !.dq = Tail(@)],
          event |-> [kind |-> "errback", d |-> Head(a.dq), error |-> line]]
  ELSE [assuan |-> a, event |-> NoEvent]

\* lineReceived: the connection after the line, and what the line fired.
\* The four prefixes exclude one another, so the chain of ifs is a case
\* split; self._dq.pop(0) on an empty list raises IndexError before
\* anything else is changed.
lineReceived(a, line) ==
  IF startswith(line, <<"#">>) THEN [assuan |-> a, event |-> NoEvent]
  ELSE IF startswith(line, <<"O", "K">>) THEN
    IF a.ready THEN
      IF a.dq = <<>> THEN [assuan |-> a, event |-> IndexError]
      ELSE [assuan |-> [a EXCEPT !.dq = Tail(@), !.bufferedData = <<>>],
            event |-> [kind |-> "callback", d |-> Head(a.dq),
                       response |-> currentResponse(a, line)]]
    ELSE [assuan |-> [a EXCEPT !.ready = TRUE], event |-> NoEvent]
  ELSE IF startswith(line, <<"D", " ">>) THEN
    [assuan |-> [a EXCEPT !.bufferedData =
                   Append(@, unescape(SubSeq(line, 3, Len(line))))],
     event |-> NoEvent]
  ELSE IF startswith(line, <<"E", "R", "R">>) THEN
    IF a.dq = <<>> THEN [assuan |-> a, event |-> IndexError]
    ELSE [assuan |-> [a EXCEPT !.dq = Tail(@)],
          event |-> [kind |-> "errback", d |-> Head(a.dq), error |-> line]]
  ELSE [assuan |-> a, event |-> NoEvent]

\* ------------------------------------------------------------------- state
VARIABLES
  assuan,      \* the SimpleAssuan instance: _ready, _dq, _bufferedData
  trace,       \* history: lines written with sendLine and lines received, in order
  fired,       \* history: the Deferreds resolved so far, in order
  crashed,     \* lineReceived raised IndexError (pop from an empty _dq)
  sessPc,      \* askForPassword: "none", "connect", the command awaited, "done"
  awaiting,    \* the Deferred askForPassword waits for, 0 if none
  sessResult,  \* what askForPassword returned or raised
  pc,          \* secretly: "start", "prompting", "acting", "done", "failed"
  store,       \* the keyring: (system, username) -> secret or None
  calls,       \* history: the collaborators called by secretly, in order
  result,      \* what the Deferred of secretly fired with
  transport,   \* "none", "open" or "closed": the pipe to the spawned process
  toClient,    \* lines the peer has written that lineReceived has not seen
  peerRead,    \* number of command lines the peer has answered
  peerGreeted, \* the peer has sent its greeting
  noise,       \* number of data, comment and other lines the peer has sent
  key,         \* input: the (system, username) of the resolution
  pinentries,  \* input: the candidates given to choosePinentry
  action,      \* input: the consumer action, by what it does with a secret
  encodes,     \* input: whether prompt and description encode as UTF-8
  payload,     \* the payload the peer escapes into the D line of the codec specification
  procs        \* the resolutions that run concurrently on one store, each a World

worldVars == <<assuan, trace, fired, crashed, sessPc, awaiting, sessResult,
               pc, store, calls, result>>
peerVars == <<toClient, peerRead, peerGreeted, noise>>
\* the inputs, and the state only the concurrent resolutions change
inputVars == <<key, pinentries, action, encodes, payload, procs>>
vars == <<worldVars, transport, peerVars, inputVars>>

\* the part of the state the program's code reads and writes
World ==
  [assuan |-> assuan, trace |-> trace, fired |-> fired, crashed |-> crashed,
   sessPc |-> sessPc, awaiting |-> awaiting, sessResult |-> sessResult,
   pc |-> pc, store |-> store, calls |-> calls, result |-> result]

Set(w) ==
  /\ assuan' = w.assuan
  /\ trace' = w.trace
  /\ fired' = w.fired
  /\ crashed' = w.crashed
  /\ sessPc' = w.sessPc
  /\ awaiting' = w.awaiting
  /\ sessResult' = w.sessResult
  /\ pc' = w.pc
  /\ store' = w.store
  /\ calls' = w.calls
  /\ result' = w.result

Sends(tr) == SelectSeq(tr, LAMBDA e : e.t = "send")
Recvs(tr) == SelectSeq(tr, LAMBDA e : e.t = "recv")

\* b" ".join([command] + list(args))
RECURSIVE joinSpace(_)
joinSpace(words) ==
  IF Len(words) <= 1 THEN words
  ELSE <<Head(words), " ">> \o joinSpace(Tail(words))

\* issueCommand: a new Deferred is queued, then the line is written
sendCommand(w, command, args) ==
  LET d == Len(Sends(w.trace)) + 1
  IN [w EXCEPT !.assuan = issueCommand(w.assuan, d),
               !.trace = Append(@, [t |-> "send", d |-> d,
                                    line |-> joinSpace(<<command>> \o args)])]

\* what lineReceived fired, as an entry of the history
\* (at: the place in the trace of the line that fired it)
firedEntry(ev, at) ==
  IF ev.kind = "callback"
  THEN [d |-> ev.d, kind |-> "callback", data |-> ev.response.data,
        line |-> ev.response.debugInfo, at |-> at]
  ELSE [d |-> ev.d, kind |-> "errback", data |-> <<>>, line |-> ev.error, at |-> at]

\* the transport hands one line to lineReceived
receive(w, line) ==
  LET lr == lineReceived(w.assuan, line)
  IN [w EXCEPT !.assuan = lr.assuan,
               !.trace = Append(@, [t |-> "recv", d |-> 0, line |-> line]),
               !.fired = IF lr.event.kind \in {"callback", "errback"}
                         THEN Append(@, firedEntry(lr.event, Len(w.trace) + 1)) ELSE @,
               !.crashed = @ \/ lr.event.kind = "IndexError"]

\* the state before secretly is called, with no connection
InitIdle ==
  /\ assuan = NewAssuan
  /\ trace = <<>>
  /\ fired = <<>>
  /\ crashed = FALSE
  /\ sessPc = "none"
  /\ awaiting = 0
  /\ sessResult = NoOutcome
  /\ calls = <<>>
  /\ result = NoOutcome
  /\ toClient = <<>>
  /\ peerRead = 0
  /\ peerGreeted = FALSE
  /\ noise = 0
  /\ procs = <<>>

\* --------------------------------------- a connection used by a free client
\* The lines a peer can send: greeting or reply, error, data, comment, other.
OKLine == <<"O", "K">>
ERRLine == <<"E", "R", "R">>
FreeLines ==
  {OKLine, ERRLine, <<"D", " ", "a">>, <<"D", " ", "%", "2", "5">>, <<"#">>, <<"S">>}

InitAssuan ==
  /\ InitIdle
  /\ pc = "none"
  /\ store = <<>>
  /\ transport = "open"
  /\ key = 0
  /\ pinentries = <<>>
  /\ action = NoOutcome
  /\ encodes = <<>>
  /\ payload = <<>>

\* a client calls issueCommand
ClientIssue ==
  /\ transport = "open"
  /\ Len(Sends(trace)) < MaxCmds
  /\ Set(sendCommand(World, "CMD", <<>>))
  /\ UNCHANGED <<transport, peerVars, inputVars>>

\* the peer's next line arrives
ClientReceive ==
  /\ transport = "open"
  /\ Len(Recvs(trace)) < MaxLines
  /\ \E line \in FreeLines : Set(receive(World, line))
  /\ UNCHANGED <<transport, peerVars, inputVars>>

NextAssuan == ClientIssue \/ ClientReceive

SpecAssuan == InitAssuan /\ [][NextAssuan]_vars

\* the i-th reply fired the i-th Deferred with that line
FiredBy(entry, d, line) ==
  /\ entry.d = d
  /\ entry.line = line
  /\ entry.kind = IF startswith(line, OKLine) THEN "callback" ELSE "errback"

SendIndexes(tr) == {i \in 1..Len(tr) : tr[i].t = "send"}

\* The trace is: lines that left the connection Ready and resolved nothing
\* (one OK line, no ERR line), then all the commands, then only replies.
PipelinedTrace(tr) ==
  LET S == SendIndexes(tr)
      first == CHOOSE i \in S : \A j \in S : i <= j
      last == CHOOSE i \in S : \A j \in S : j <= i
  IN /\ S # {}
     /\ S = first..last
     /\ Cardinality({i \in 1..(first - 1) : startswith(tr[i].line, OKLine)}) = 1
     /\ \A i \in 1..(first - 1) : ~startswith(tr[i].line, ERRLine)
     /\ \A i \in (last + 1)..Len(tr) : tr[i].line \in {OKLine, ERRLine}

\* C6: when N commands are issued on a Ready connection before any reply and
\* the replies (each OK or ERR) are then delivered, the i-th Deferred issued
\* is resolved by the i-th reply, fulfilled on OK and failed on ERR, each
\* once, and the Deferreds not yet replied to stay queued in issue order; in
\* every state the Deferreds are resolved in the order of their issue.
FifoCorrelation ==
  /\ \A i \in 1..Len(fired) : fired[i].d = i
  /\ PipelinedTrace(trace) =>
       LET n == Len(Sends(trace))
           last == CHOOSE i \in SendIndexes(trace) : \A j \in SendIndexes(trace) : j <= i
           replies == SubSeq(trace, last + 1, Len(trace))
       IN /\ ~crashed \/ Len(replies) > n
          /\ Len(replies) <= n =>
               /\ Len(fired) = Len(replies)
               /\ \A i \in 1..Len(replies) : FiredBy(fired[i], i, replies[i].line)
               /\ assuan.dq = [i \in 1..(n - Len(replies)) |-> Len(replies) + i]

\* two commands issued together, one fulfilled and one failed, none left
FifoCorrelationWitness ==
  /\ PipelinedTrace(trace)
  /\ Len(Sends(trace)) = 2
  /\ Len(fired) = 2
  /\ fired[1].kind = "errback"
  /\ fired[2].kind = "callback"
  /\ assuan.dq = <<>>

\* what a step does to ready
GreetingStep ==
  LET greeting == /\ ~assuan.ready
                  /\ Len(trace') = Len(trace) + 1
                  /\ trace'[Len(trace')].t = "recv"
                  /\ startswith(trace'[Len(trace')].line, OKLine)
  IN /\ assuan.ready => assuan'.ready
     /\ ~assuan.ready /\ assuan'.ready => greeting
     /\ greeting => /\ assuan'.ready
                    /\ assuan'.dq = assuan.dq
                    /\ assuan'.bufferedData = assuan.bufferedData
                    /\ fired' = fired
                    /\ crashed' = crashed

\* C7: a connection starts not ready; the first OK line received makes it
\* ready and resolves nothing, with the queue and the data buffer unchanged
\* also when commands are queued; ready changes on no other line and never
\* back.
Greeting == ~assuan.ready /\ [][GreetingStep]_vars

\* the greeting arrived after a command was issued and before anything fired
GreetingWitness ==
  /\ assuan.ready
  /\ assuan.dq = <<1>>
  /\ assuan.bufferedData # <<>>
  /\ fired = <<>>
  /\ trace[1].t = "send"

\* the last event of the trace after the step is a line just received
Received(line) ==
  /\ Len(trace') = Len(trace) + 1
  /\ trace'[Len(trace')].t = "recv"
  /\ trace'[Len(trace')].line = line

\* C11: a line that begins with # changes nothing, whatever the state of the
\* connection: ready, the queue and the data buffer keep their values and no
\* Deferred is resolved.
CommentIgnored ==
  [][\A line \in FreeLines :
       Received(line) /\ startswith(line, <<"#">>) =>
         /\ assuan' = assuan
         /\ fired' = fired
         /\ crashed' = crashed]_vars

\* comments arrived before and after the greeting, with a command queued and
\* data buffered, and left all of it alone
CommentIgnoredWitness ==
  /\ Len(trace) = 5
  /\ trace[2].line = <<"#">>
  /\ trace[5].line = <<"#">>
  /\ assuan = [ready |-> TRUE, dq |-> <<1>>, bufferedData |-> <<<<"a">>>>]
  /\ fired = <<>>

\* the data lines among the events lo+1 .. hi-1 of the trace, unescaped
DataBetween(lo, hi) ==
  LET D == SelectSeq(SubSeq(trace, lo + 1, hi - 1),
                     LAMBDA e : e.t = "recv" /\ startswith(e.line, <<"D", " ">>))
  IN [i \in 1..Len(D) |-> unescape(SubSeq(D[i].line, 3, Len(D[i].line)))]

SendAt(d) == CHOOSE i \in 1..Len(trace) : trace[i].t = "send" /\ trace[i].d = d
Max(a, b) == IF a >= b THEN a ELSE b

\* C15: the data buffer holds only fragments of the oldest unresolved
\* request: the payload of a Response is made of the D lines received since
\* the request before it was resolved and since its own command was issued,
\* and the buffer holds the D lines received for the request at the head of
\* the queue, nothing when the queue is empty.
BufferBelongsToOldest ==
  /\ \A k \in 1..Len(fired) :
       fired[k].kind = "callback" =>
         fired[k].data =
           join(DataBetween(Max(IF k = 1 THEN 0 ELSE fired[k - 1].at,
                                SendAt(fired[k].d)),
                            fired[k].at))
  /\ assuan.bufferedData =
       IF assuan.dq = <<>> THEN <<>>
       ELSE DataBetween(Max(IF fired = <<>> THEN 0 ELSE fired[Len(fired)].at,
                            SendAt(Head(assuan.dq))),
                        Len(trace) + 1)

\* C16: on a Ready connection a D line appends its unescaped remainder to the
\* data buffer and resolves nothing; an OK line fulfils the oldest Deferred
\* with a response whose data is the buffered fragments joined in the order
\* of their arrival and whose debugInfo is that line, and empties the buffer.
DataThenOK ==
  [][\A line \in FreeLines :
       Received(line) /\ assuan.ready =>
         /\ startswith(line, <<"D", " ">>) =>
              /\ assuan' = [assuan EXCEPT !.bufferedData =
                              assuan.bufferedData \o <<unescape(SubSeq(line, 3, Len(line)))>>]
              /\ fired' = fired
         /\ startswith(line, OKLine) /\ assuan.dq # <<>> =>
              /\ Len(fired') = Len(fired) + 1
              /\ SubSeq(fired', 1, Len(fired)) = fired
              /\ fired'[Len(fired')].d = Head(assuan.dq)
              /\ fired'[Len(fired')].kind = "callback"
              /\ fired'[Len(fired')].data = join(assuan.bufferedData)
              /\ fired'[Len(fired')].line = line
              /\ assuan' = [assuan EXCEPT !.dq = Tail(assuan.dq),
                                          !.bufferedData = <<>>]]_vars

\* two fragments, "a" and an escaped %, became the data "a%" of one response
DataThenOKWitness ==
  /\ Len(fired) = 1
  /\ fired[1].kind = "callback"
  /\ fired[1].data = <<"a", "%">>
  /\ fired[1].line = OKLine
  /\ assuan.bufferedData = <<>>
  /\ assuan.dq = <<>>

\* ------------------------------------------------- Pinentry, choosePinentry
\* A Pinentry is given by what which() finds for its name and by what its
\* argument factory does.

Call(op, k, outcome) == [op |-> op, key |-> k, outcome |-> outcome]

CallsOf(log, op) == SelectSeq(log, LAMBDA c : c.op = op)

\* Pinentry.argv with a failure of the argument factory reported as not found
argv_wrapsFailure(pinentry, i) ==
  LET paths == Call("which", i, Return(pinentry.which))
      found == IF pinentry.which = <<>> THEN <<>> ELSE <<Head(pinentry.which)>>
      built == Call("argumentFactory", i, pinentry.factory)
  IN IF found = <<>>
     THEN [outcome |-> Raise("PinentryNotFound", <<>>), calls |-> <<paths>>]
     ELSE IF pinentry.factory.kind = "raise"
     THEN [outcome |-> Raise("PinentryNotFound", <<>>), calls |-> <<paths, built>>]
     ELSE [outcome |-> Return(found \o pinentry.factory.value),
           calls |-> <<paths, built>>]

\* Pinentry.argv of the i-th candidate: what it returns or raises, and its
\* calls of which() and of the argument factory
argv(pinentry, i) ==
  LET paths == Call("which", i, Return(pinentry.which))
      found == IF pinentry.which = <<>> THEN <<>> ELSE <<Head(pinentry.which)>>   \* [:1]
      built == Call("argumentFactory", i, pinentry.factory)
  IN IF found = <<>>
     THEN [outcome |-> Raise("PinentryNotFound", <<>>), calls |-> <<paths>>]
     ELSE IF pinentry.factory.kind = "raise"
     THEN [outcome |-> pinentry.factory, calls |-> <<paths, built>>]
     ELSE [outcome |-> Return(found \o pinentry.factory.value),
           calls |-> <<paths, built>>]

\* the loop that goes on only after PinentryNotFound
RECURSIVE tryPinentries_onlyNotFound(_, _)
tryPinentries_onlyNotFound(candidates, i) ==
  IF i > Len(candidates)
  THEN [outcome |-> Raise("RuntimeError", <<>>), calls |-> <<>>]
  ELSE LET r == argv(candidates[i], i)
           tried == r.calls \o <<Call("argv", i, r.outcome)>>
       IN IF r.outcome.kind = "raise" /\ r.outcome.error \in {"PinentryNotFound"}
          THEN LET rest == tryPinentries_onlyNotFound(candidates, i + 1)
               IN [outcome |-> rest.outcome, calls |-> tried \o rest.calls]
          ELSE [outcome |-> r.outcome, calls |-> tried]

\* the loop that goes on after any exception
RECURSIVE tryPinentries_swallowsAll(_, _)
tryPinentries_swallowsAll(candidates, i) ==
  IF i > Len(candidates)
  THEN [outcome |-> Raise("RuntimeError", <<>>), calls |-> <<>>]
  ELSE LET r == argv(candidates[i], i)
           tried == r.calls \o <<Call("argv", i, r.outcome)>>
       IN IF r.outcome.kind = "raise"
          THEN LET rest == tryPinentries_swallowsAll(candidates, i + 1)
               IN [outcome |-> rest.outcome, calls |-> tried \o rest.calls]
          ELSE [outcome |-> r.outcome, calls |-> tried]

\* the for loop of choosePinentry from the i-th candidate on, with the calls
\* it makes; the else clause raises RuntimeError
RECURSIVE tryPinentries(_, _)
tryPinentries(candidates, i) ==
  IF i > Len(candidates)
  THEN [outcome |-> Raise("RuntimeError", <<>>), calls |-> <<>>]
  ELSE LET r == argv(candidates[i], i)
           tried == r.calls \o <<Call("argv", i, r.outcome)>>
       IN IF r.outcome.kind = "raise" /\ r.outcome.error \in {"PinentryNotFound", "OSError"}
          THEN LET rest == tryPinentries(candidates, i + 1)
               IN [outcome |-> rest.outcome, calls |-> tried \o rest.calls]
          ELSE [outcome |-> r.outcome, calls |-> tried]

\* choosePinentry
choosePinentry(candidates) == tryPinentries(candidates, 1).outcome

\* ------------------------------------------------- choosePinentry on its own
\* what which() finds for a name, and what an argument factory does
Whiches == {<<>>, <<"/bin/p">>, <<"/usr/bin/q", "/opt/q">>}
Factories ==
  {Return(<<>>), Return(<<"--ttyname", "/dev/tty">>), Raise("OSError", <<>>),
   Raise("PinentryNotFound", <<>>), Raise("ValueError", <<>>)}
Candidates == [which : Whiches, factory : Factories]

InitChoose ==
  /\ assuan = NewAssuan
  /\ trace = <<>>
  /\ fired = <<>>
  /\ crashed = FALSE
  /\ sessPc = "none"
  /\ awaiting = 0
  /\ sessResult = NoOutcome
  /\ calls = <<>>
  /\ result = NoOutcome
  /\ toClient = <<>>
  /\ peerRead = 0
  /\ peerGreeted = FALSE
  /\ noise = 0
  /\ procs = <<>>
  /\ pc = "choose"
  /\ store = <<>>
  /\ transport = "none"
  /\ key = 0
  /\ pinentries \in SeqsUpTo(Candidates, MaxCand)
  /\ action = NoOutcome
  /\ encodes = <<>>
  /\ payload = <<>>

\* choosePinentry(_pinentries) is called
Choose ==
  /\ pc = "choose"
  /\ pc' = "chosen"
  /\ LET run == tryPinentries(pinentries, 1)
     IN /\ result' = choosePinentry(pinentries)
        /\ calls' = run.calls
  /\ UNCHANGED <<assuan, trace, fired, crashed, sessPc, awaiting, sessResult,
                 store, transport, peerVars, inputVars>>

NextChoose == Choose

SpecChoose == InitChoose /\ [][NextChoose]_vars

\* by the candidate's own data: it resolves, or it fails in a way that
\* choosePinentry passes over
Resolves(p) == p.which # <<>> /\ p.factory.kind = "return"
PassedOver(p) ==
  \/ p.which = <<>>
  \/ p.factory.kind = "raise" /\ p.factory.error \in {"PinentryNotFound", "OSError"}
Command(p) == <<p.which[1]>> \o p.factory.value
Resolving == {i \in 1..Len(pinentries) : Resolves(pinentries[i])}
NotPassedOver == {i \in 1..Len(pinentries) : ~PassedOver(pinentries[i])}
First(S) == CHOOSE i \in S : \A j \in S : i <= j

\* C12: when every candidate resolves or fails with PinentryNotFound or
\* OSError, choosePinentry returns the command of the first candidate that
\* resolves, and raises RuntimeError exactly when none does, the empty
\* sequence included.
FirstResolvable ==
  pc = "chosen" /\ (\A i \in 1..Len(pinentries) :
                      Resolves(pinentries[i]) \/ PassedOver(pinentries[i])) =>
    /\ Resolving # {} => result = Return(Command(pinentries[First(Resolving)]))
    /\ Resolving = {} => result = Raise("RuntimeError", <<>>)
    /\ result.error = "RuntimeError" <=> Resolving = {}

\* a missing program and one without a terminal were passed over
FirstResolvableWitness ==
  /\ pc = "chosen"
  /\ Len(pinentries) = 3
  /\ pinentries[1].which = <<>>
  /\ pinentries[2].which # <<>> /\ pinentries[2].factory = Raise("OSError", <<>>)
  /\ result = Return(<<"/usr/bin/q", "--ttyname", "/dev/tty">>)

\* C13: an error of a candidate that is neither PinentryNotFound nor OSError
\* leaves choosePinentry as it is: no later candidate is tried and nothing is
\* returned.
OtherErrorPropagates ==
  pc = "chosen" /\ NotPassedOver # {} /\ ~Resolves(pinentries[First(NotPassedOver)]) =>
    LET i == First(NotPassedOver)
    IN /\ result = pinentries[i].factory
       /\ result.kind = "raise"
       /\ \A c \in 1..Len(calls) : calls[c].key <= i
       /\ CallsOf(calls, "argv")[Len(CallsOf(calls, "argv"))] =
            Call("argv", i, pinentries[i].factory)

\* the second candidate raised ValueError although the third resolves
OtherErrorPropagatesWitness ==
  /\ pc = "chosen"
  /\ Len(pinentries) = 3
  /\ PassedOver(pinentries[1])
  /\ pinentries[2].which # <<>> /\ pinentries[2].factory = Raise("ValueError", <<>>)
  /\ Resolves(pinentries[3])
  /\ result = Raise("ValueError", <<>>)

\* C14: Pinentry.argv raises PinentryNotFound without calling the argument
\* factory when which() finds nothing; otherwise it returns the first path
\* found followed by the factory's arguments, and a failure of the factory
\* leaves argv unchanged.
ArgvOfPinentry ==
  \A c \in 1..Len(calls) :
    calls[c].op = "argv" =>
      LET i == calls[c].key
          p == pinentries[i]
          built == {b \in 1..Len(calls) : calls[b] = Call("argumentFactory", i, p.factory)}
      IN /\ p.which = <<>> =>
              calls[c].outcome = Raise("PinentryNotFound", <<>>) /\ built = {}
         /\ p.which # <<>> => built # {}
         /\ p.which # <<>> /\ p.factory.kind = "return" =>
              calls[c].outcome = Return(<<p.which[1]>> \o p.factory.value)
         /\ p.which # <<>> /\ p.factory.kind = "raise" =>
              calls[c].outcome = p.factory

\* argv let OSError through, raised PinentryNotFound for a missing program
\* and took the first of two paths
ArgvOfPinentryWitness ==
  /\ pc = "chosen"
  /\ CallsOf(calls, "argv") =
       <<Call("argv", 1, Raise("OSError", <<>>)),
         Call("argv", 2, Raise("PinentryNotFound", <<>>)),
         Call("argv", 3, Return(<<"/usr/bin/q", "--ttyname", "/dev/tty">>))>>
  /\ Len(CallsOf(calls, "argumentFactory")) = 2

\* ------------------------------------------------------------- the keyring
\* keyring.get_password
get_password(st, k) == st[k]

\* set_password that files the secret under another key
set_password_otherKey(st, k, secret) ==
  [st EXCEPT ![CHOOSE j \in DOMAIN st : j # k] = secret]

\* set_password that keeps a secret the keyring already holds
set_password_ifAbsent(st, k, secret) ==
  IF st[k] = None THEN [st EXCEPT ![k] = secret] ELSE st

\* keyring.set_password
set_password(st, k, secret) == [st EXCEPT ![k] = secret]

\* ---------------------------------------------------------------- secretly
\* the Deferred of secretly fires: the generator ends without returnValue,
\* or the exception leaves it
secretly_fires(w, outcome) ==
  IF outcome.kind = "raise"
  THEN [w EXCEPT !.pc = "failed", !.result = outcome]
  ELSE [w EXCEPT !.pc = "done", !.result = Return(None)]

\* yield maybeDeferred(action, secret): the action is called at once; a
\* synchronous action has finished when the call returns
secretly_action(w, secret) ==
  LET called == [w EXCEPT !.calls = Append(@, Call("action", key, Return(secret)))]
  IN IF action.sync THEN secretly_fires(called, action.outcome)
     ELSE [called EXCEPT !.pc = "acting"]

\* the while loop that ignores the stored secret and always prompts
secretly_loop_alwaysPrompt(w) ==
  LET secret == get_password(w.store, key)
      got == [w EXCEPT !.calls = Append(@, Call("get_password", key, Return(secret)))]
      chosen == choosePinentry(pinentries)
      asked == [got EXCEPT !.calls = Append(@, Call("choosePinentry", key, chosen))]
  IN IF chosen.kind = "raise" THEN secretly_fires(asked, chosen)
     ELSE [asked EXCEPT !.calls = Append(@, Call("spawnProcess", key, chosen)),
                        !.pc = "prompting", !.sessPc = "connect",
                        !.sessResult = NoOutcome]

\* one pass of the while loop, up to the call of the action or up to the
\* connect() of askForPassword
secretly_loop(w) ==
  LET secret == get_password(w.store, key)
      got == [w EXCEPT !.calls = Append(@, Call("get_password", key, Return(secret)))]
      chosen == choosePinentry(pinentries)
      asked == [got EXCEPT !.calls = Append(@, Call("choosePinentry", key, chosen))]
  IN IF secret # None THEN secretly_action(got, secret)
     ELSE IF chosen.kind = "raise" THEN secretly_fires(asked, chosen)
     ELSE [asked EXCEPT !.calls = Append(@, Call("spawnProcess", key, chosen)),
                        !.pc = "prompting", !.sessPc = "connect",
                        !.sessResult = NoOutcome]

\* the resumption that passes the secret on without storing it
secretly_resume_noStore(w, outcome) ==
  IF outcome.kind = "raise" THEN secretly_fires(w, outcome)
  ELSE secretly_action(w, outcome.value)

\* the resumption that prompts again after a failed prompt
secretly_resume_retry(w, outcome) ==
  IF outcome.kind = "raise" THEN secretly_loop(w)
  ELSE secretly_loop(
         [w EXCEPT !.store = set_password(@, key, outcome.value),
                   !.calls = Append(@, Call("set_password", key, outcome))])

\* askForPassword has returned or raised: keyring.set_password with the
\* secret and the next pass of the loop, or the exception leaves secretly
secretly_resume(w, outcome) ==
  IF outcome.kind = "raise" THEN secretly_fires(w, outcome)
  ELSE secretly_loop(
         [w EXCEPT !.store = set_password(@, key, outcome.value),
                   !.calls = Append(@, Call("set_password", key, outcome))])

\* ---------------------------------------------------------- askForPassword
Handshake == <<"SETPROMPT", "SETTITLE", "SETDESC", "GETPIN">>

\* the arguments of the k-th command, encoded
handshakeArgs(k) ==
  IF k = 1 THEN <<"prompt">>
  ELSE IF k = 2 THEN <<"Enter Password">>
  ELSE IF k = 3 THEN <<"description">>
  ELSE <<>>

\* text.encode("utf-8") raises for a text that has no UTF-8 encoding
canEncode(k) ==
  IF k = 1 THEN encodes.prompt
  ELSE IF k = 3 THEN encodes.description
  ELSE TRUE

\* response.data.decode("utf-8")
utf8decode(data) ==
  IF \E i \in 1..Len(data) : data[i] = "xFF"
  THEN Raise("UnicodeDecodeError", data)
  ELSE Return(data)

\* the end of the session with BYE sent only when the handshake succeeded
sessionEnds_byeOnSuccess(w, outcome) ==
  LET bye == IF outcome.kind = "raise" /\ outcome.error # "UnicodeDecodeError"
             THEN w ELSE sendCommand(w, "BYE", <<>>)
  IN secretly_resume([bye EXCEPT !.sessPc = "done", !.awaiting = 0,
                                 !.sessResult = outcome], outcome)

\* the end of the session with BYE written to the transport and no Deferred
\* queued for its reply
sessionEnds_byeUnqueued(w, outcome) ==
  LET bye == [w EXCEPT !.trace = Append(@, [t |-> "send", d |-> Len(Sends(w.trace)) + 1,
                                            line |-> <<"BYE">>])]
  IN secretly_resume([bye EXCEPT !.sessPc = "done", !.awaiting = 0,
                                 !.sessResult = outcome], outcome)

\* the try block is left: finally BYE is issued and not waited for, then
\* askForPassword returns or raises into secretly
sessionEnds(w, outcome) ==
  LET bye == sendCommand(w, "BYE", <<>>)
  IN secretly_resume([bye EXCEPT !.sessPc = "done", !.awaiting = 0,
                                 !.sessResult = outcome], outcome)

\* the k-th command issued together with the one after it
handshakeStep_pipelined(w, k) ==
  IF ~canEncode(k) THEN sessionEnds(w, Raise("UnicodeError", <<>>))
  ELSE LET sent == sendCommand(w, Handshake[k], handshakeArgs(k))
           both == IF k < 4 THEN sendCommand(sent, Handshake[k + 1], handshakeArgs(k + 1))
                   ELSE sent
       IN [both EXCEPT !.sessPc = Handshake[k],
                       !.awaiting = Len(Sends(sent.trace))]

\* yield assuan.issueCommand(<k-th command>, <text>.encode("utf-8"))
handshakeStep(w, k) ==
  IF ~canEncode(k) THEN sessionEnds(w, Raise("UnicodeError", <<>>))
  ELSE LET sent == sendCommand(w, Handshake[k], handshakeArgs(k))
       IN [sent EXCEPT !.sessPc = Handshake[k],
                       !.awaiting = Len(Sends(sent.trace))]

HandshakeIndex(command) == CHOOSE k \in 1..4 : Handshake[k] = command

\* the callbacks of the Deferred that lineReceived fired: the generator of
\* askForPassword if it waits for this Deferred, nothing otherwise
resume(w, ev) ==
  IF ev.kind \notin {"callback", "errback"} \/ ev.d # w.awaiting THEN w
  ELSE IF ev.kind = "errback"
       THEN sessionEnds(w, Raise("AssuanError", ev.error))
       ELSE IF w.sessPc # "GETPIN"
            THEN handshakeStep(w, HandshakeIndex(w.sessPc) + 1)
            ELSE sessionEnds(w, utf8decode(ev.response.data))

\* ------------------------------------------------- the resolution, end to end
Keys == {"k1", "k2"}
Cached == <<"c">>

Found == [which |-> <<"/bin/pinentry", "/opt/pinentry">>, factory |-> Return(<<>>)]
Missing == [which |-> <<>>, factory |-> Return(<<>>)]
NoTTY == [which |-> <<"/bin/pinentry-curses">>, factory |-> Raise("OSError", <<>>)]
Broken == [which |-> <<"/bin/pinentry-x">>, factory |-> Raise("ValueError", <<>>)]
\* the candidate lists of the resolutions: none, one that is found, none that
\* is usable, a usable one after an unusable one, a broken one first
PinentryLists ==
  {<<>>, <<Found>>, <<Missing, NoTTY>>, <<NoTTY, Found>>, <<Broken, Found>>}

Actions ==
  [sync : BOOLEAN, outcome : {Return(<<"r">>), Raise("ActionError", <<>>)}]

\* the lines of a pinentry besides its replies: data, comment, status
NoiseLines ==
  {<<"D", " ", "a">>, <<"D", " ", "xFF">>, <<"#">>}

\* the keyring holds a secret for the other key, and maybe one for the key
\* of the resolution, which is k1 (the keys are interchangeable)
Stores(k) ==
  {[j \in Keys |-> IF j = k THEN s ELSE <<"other">>] : s \in {None, Cached}}

Init ==
  /\ InitIdle
  /\ pc = "start"
  /\ transport = "none"
  /\ key = "k1"
  /\ store \in Stores(key)
  /\ pinentries \in PinentryLists
  /\ action \in Actions
  /\ encodes \in [prompt : BOOLEAN, description : BOOLEAN]
  /\ payload = <<>>

\* secretly(reactor, action, system, username, prompt) is called
Secretly ==
  /\ pc = "start"
  /\ Set(secretly_loop(World))
  /\ UNCHANGED <<transport, peerVars, inputVars>>

\* connect() fires with the protocol: a new SimpleAssuan on the pipes of the
\* spawned process; askForPassword goes on to its first command
ConnectionMade ==
  /\ sessPc = "connect"
  /\ transport' = "open"
  /\ Set(handshakeStep([World EXCEPT !.assuan = NewAssuan], 1))
  /\ toClient' = <<>>
  /\ peerRead' = Len(Sends(trace))
  /\ peerGreeted' = FALSE
  /\ UNCHANGED <<noise, inputVars>>

\* connect() fails: the process cannot be spawned
ConnectionFailed ==
  /\ sessPc = "connect"
  /\ LET outcome == Raise("SpawnError", <<>>)
     IN Set(secretly_resume([World EXCEPT !.sessPc = "done",
                                          !.sessResult = outcome], outcome))
  /\ UNCHANGED <<transport, peerVars, inputVars>>

\* the pinentry greets
PeerGreets ==
  /\ transport = "open"
  /\ ~peerGreeted
  /\ peerGreeted' = TRUE
  /\ toClient' = Append(toClient, OKLine)
  /\ UNCHANGED <<worldVars, transport, peerRead, noise, inputVars>>

\* the pinentry answers the oldest command it has not answered
PeerReplies ==
  /\ transport = "open"
  /\ peerGreeted
  /\ peerRead < Len(Sends(trace))
  /\ peerRead' = peerRead + 1
  /\ \E line \in {OKLine, ERRLine} : toClient' = Append(toClient, line)
  /\ UNCHANGED <<worldVars, transport, peerGreeted, noise, inputVars>>

\* the pinentry sends a data line, a comment or another line
PeerNoise ==
  /\ transport = "open"
  /\ peerGreeted
  /\ noise < MaxNoise
  /\ noise' = noise + 1
  /\ \E line \in NoiseLines : toClient' = Append(toClient, line)
  /\ UNCHANGED <<worldVars, transport, peerRead, peerGreeted, inputVars>>

\* the transport delivers the oldest line: lineReceived, and with it the
\* callbacks of the Deferred it fires
Deliver ==
  /\ transport = "open"
  /\ toClient # <<>>
  /\ LET line == Head(toClient)
         ev == lineReceived(assuan, line).event
     IN Set(resume(receive(World, line), ev))
  /\ toClient' = Tail(toClient)
  /\ UNCHANGED <<transport, peerRead, peerGreeted, noise, inputVars>>

\* the loss of the connection that fails the Deferred the session waits for
ConnectionLost_errbacks ==
  /\ transport = "open"
  /\ transport' = "closed"
  /\ toClient' = <<>>
  /\ Set(IF awaiting # 0
         THEN sessionEnds(World, Raise("ConnectionLost", <<>>))
         ELSE World)
  /\ UNCHANGED <<peerRead, peerGreeted, noise, inputVars>>

\* the pipes of the process close
ConnectionLost ==
  /\ transport = "open"
  /\ transport' = "closed"
  /\ toClient' = <<>>
  /\ UNCHANGED <<worldVars, peerRead, peerGreeted, noise, inputVars>>

\* the Deferred of an asynchronous action fires
ActionFires ==
  /\ pc = "acting"
  /\ Set(secretly_fires(World, action.outcome))
  /\ UNCHANGED <<transport, peerVars, inputVars>>

Next ==
  \/ Secretly
  \/ ConnectionMade
  \/ ConnectionFailed
  \/ PeerGreets
  \/ PeerReplies
  \/ PeerNoise
  \/ Deliver
  \/ ConnectionLost
  \/ ActionFires

Spec == Init /\ [][Next]_vars

\* --------------------------------------------- properties of the resolution
Cmd(e) == e.line[1]
SentCmds == [i \in 1..Len(Sends(trace)) |-> Cmd(Sends(trace)[i])]
HandshakeSends == SelectSeq(Sends(trace), LAMBDA e : Cmd(e) # "BYE")
ActionCalled == CallsOf(calls, "action") # <<>>
Established == transport # "none"
IsGreeting(e) == e.t = "recv" /\ startswith(e.line, OKLine)

\* C1: the Deferred of secretly fires with what the action produced: the
\* action's result when it succeeds, its failure when it fails.
ResultIsActionOutcome ==
  pc \in {"done", "failed"} /\ ActionCalled => result = action.outcome

\* C2: when the first get_password finds nothing and askForPassword returns
\* s, set_password is called once, with (system, username, s), and the action
\* is called once, with s, after that call.
StoreMiss ==
  sessResult.kind = "return" =>
    LET wrote == Call("set_password", key, Return(sessResult.value))
        acted == Call("action", key, Return(sessResult.value))
    IN /\ calls[1] = Call("get_password", key, Return(None))
       /\ CallsOf(calls, "set_password") = <<wrote>>
       /\ CallsOf(calls, "action") = <<acted>>
       /\ \E i, j \in 1..Len(calls) : i < j /\ calls[i] = wrote /\ calls[j] = acted
       /\ store[key] = sessResult.value

\* the prompt returned "a": it was stored and handed to the action
StoreMissWitness ==
  /\ sessResult = Return(<<"a">>)
  /\ store[key] = <<"a">>
  /\ ActionCalled
  /\ pc = "done"

\* the state after a resolution that found the secret in the store
HitState ==
  calls # <<>> /\ calls[1].outcome.value # None =>
    /\ calls = <<Call("get_password", key, calls[1].outcome),
                 Call("action", key, calls[1].outcome)>>
    /\ store[key] = calls[1].outcome.value
    /\ sessPc = "none"
    /\ sessResult = NoOutcome
    /\ transport = "none"
    /\ trace = <<>>

\* C3: when the store holds a secret c for (system, username), no pinentry is
\* chosen, no process is spawned and no session started, the store is never
\* written and keeps its contents, and the action is called with c.
StoreHit == []HitState /\ [][store[key] # None => store' = store]_vars

\* the cached secret went to the action and the resolution is over
StoreHitWitness ==
  /\ pc = "done"
  /\ calls = <<Call("get_password", key, Return(Cached)),
               Call("action", key, Return(Cached))>>

\* the prompt failed: no pinentry could be chosen, or the peer answered a
\* command of the handshake with ERR
ChooseFailed ==
  \E i \in 1..Len(calls) :
    calls[i].op = "choosePinentry" /\ calls[i].outcome.kind = "raise"
HandshakeErrs ==
  {i \in 1..Len(fired) :
     fired[i].kind = "errback" /\ SentCmds[fired[i].d] # "BYE"}

ByeState ==
  sessPc = "done" /\ Established =>
    LET n == Len(SentCmds)
    IN /\ n >= 1
       /\ SentCmds[n] = "BYE"
       /\ \A i \in 1..(n - 1) : SentCmds[i] # "BYE"
       /\ awaiting = 0

\* the step that ends the session writes BYE and leaves its Deferred queued
ByeStep ==
  sessPc # "done" /\ sessPc' = "done" /\ transport' # "none" =>
    /\ trace'[Len(trace')].t = "send"
    /\ Cmd(trace'[Len(trace')]) = "BYE"
    /\ assuan'.dq # <<>>
    /\ assuan'.dq[Len(assuan'.dq)] = trace'[Len(trace')].d
    /\ sessResult' # NoOutcome

\* C5: however a session on an established connection ends (secret returned,
\* ERR to a command of the handshake, another exception), it writes BYE once,
\* after every command of the handshake it wrote, and ends without waiting
\* for the reply to BYE.
ByeOnEveryExit == []ByeState /\ [][ByeStep]_vars

\* the session ended on ERR to SETTITLE, and BYE's reply has not arrived
ByeOnEveryExitWitness ==
  /\ SentCmds = <<"SETPROMPT", "SETTITLE", "BYE">>
  /\ sessResult.error = "AssuanError"
  /\ assuan.dq = <<3>>

LaterCommands == {"SETTITLE", "SETDESC", "GETPIN"}

FirstCommandState ==
  /\ Established /\ encodes.prompt =>
       trace # <<>> /\ trace[1].t = "send" /\ Cmd(trace[1]) = "SETPROMPT"
  /\ \A i \in 1..Len(trace) :
       trace[i].t = "send" /\ Cmd(trace[i]) \in LaterCommands =>
         \E j \in 1..(i - 1) : IsGreeting(trace[j])

LaterCommandStep ==
  /\ Len(trace') > Len(trace)
  /\ \E i \in (Len(trace) + 1)..Len(trace') :
       trace'[i].t = "send" /\ Cmd(trace'[i]) \in LaterCommands
  => assuan.ready /\ assuan'.ready

HandshakeSequential ==
  LET H == HandshakeSends
  IN /\ Len(H) <= 4
     /\ \A i \in 1..Len(H) : Cmd(H[i]) = Handshake[i]
     /\ \A i \in 2..Len(H) :
          \E f \in 1..Len(fired) :
            fired[f].d = H[i - 1].d /\ fired[f].kind = "callback"
     /\ Cardinality({i \in 1..Len(assuan.dq) :
                       SentCmds[assuan.dq[i]] # "BYE"}) <= 1

\* all four commands are written and GETPIN alone is unresolved
HandshakeSequentialWitness ==
  /\ SentCmds = <<"SETPROMPT", "SETTITLE", "SETDESC", "GETPIN">>
  /\ assuan.dq = <<4>>
  /\ Len(fired) = 3

Gets == CallsOf(calls, "get_password")
MissPasses(secret) ==
  <<Call("get_password", key, Return(None)),
    Call("choosePinentry", key, choosePinentry(pinentries)),
    Call("spawnProcess", key, choosePinentry(pinentries)),
    Call("set_password", key, Return(secret)),
    Call("get_password", key, Return(secret)),
    Call("action", key, Return(secret))>>

\* C17: with a store that returns what was written and a prompt that
\* succeeds, the loop ends in at most two passes: at most two reads of the
\* store, one session and one write come before the call of the action, and
\* the write is followed at once by the second read and the call.
TwoPasses ==
  /\ Len(Gets) <= 2
  /\ Len(CallsOf(calls, "spawnProcess")) <= 1
  /\ Len(CallsOf(calls, "set_password")) <= 1
  /\ \A i \in 1..Len(calls) :
       calls[i].op = "set_password" => calls = MissPasses(calls[i].outcome.value)
  /\ ActionCalled =>
       \/ calls = <<Call("get_password", key, Return(Cached)),
                    Call("action", key, Return(Cached))>>
       \/ calls = MissPasses(calls[Len(calls)].outcome.value)

\* the second pass found the secret "a" the first pass had stored
TwoPassesWitness ==
  /\ calls = MissPasses(<<"a">>)
  /\ Len(Gets) = 2
  /\ pc = "acting"

\* a command of the handshake is outstanding: nothing has come of the session
Outstanding ==
  awaiting # 0 =>
    /\ \E i \in 1..Len(assuan.dq) : assuan.dq[i] = awaiting
    /\ \A i \in 1..Len(fired) : fired[i].d # awaiting
    /\ pc = "prompting"
    /\ sessResult = NoOutcome
    /\ result = NoOutcome
    /\ \A i \in 1..Len(SentCmds) : SentCmds[i] # "BYE"
    /\ CallsOf(calls, "set_password") = <<>>
    /\ ~ActionCalled
    /\ store[key] = None

\* without a line from the peer nothing moves, and a closed transport
\* delivers no line
HungStep ==
  /\ awaiting # 0 /\ Len(Recvs(trace')) = Len(Recvs(trace)) =>
       UNCHANGED worldVars
  /\ transport = "closed" =>
       transport' = "closed" /\ Len(Recvs(trace')) = Len(Recvs(trace))

\* C18: when the transport closes or the peer sends no further reply while a
\* command is outstanding, its Deferred is neither fulfilled nor failed and
\* the session and the resolution stay where they are: no secret, no error,
\* no BYE, no write to the store, no call of the action.
HungForever == []Outstanding /\ [][HungStep]_vars

\* the transport closed while GETPIN was outstanding
HungForeverWitness ==
  /\ transport = "closed"
  /\ sessPc = "GETPIN"
  /\ assuan.dq = <<4>>
  /\ pc = "prompting"

IsReply(line) ==
  \/ startswith(line, ERRLine)
  \/ startswith(line, OKLine) /\ assuan.ready

RepliesInFlight ==
  Len(SelectSeq(toClient, LAMBDA l : startswith(l, OKLine) \/ startswith(l, ERRLine)))
    - (IF peerGreeted /\ ~assuan.ready THEN 1 ELSE 0)

\* C19: with a peer that greets first and sends one OK or ERR for each
\* command it has read, and data and comment lines in between, lineReceived
\* never pops an empty queue: every OK line processed while ready and every
\* ERR line finds a Deferred queued, however deliveries and commands
\* interleave.
NoReplyWithoutRequest ==
  /\ ~crashed
  /\ RepliesInFlight <= Len(assuan.dq)
  /\ transport = "open" /\ toClient # <<>> /\ IsReply(Head(toClient)) =>
       assuan.dq # <<>>

\* SETPROMPT went out before the greeting, data and a comment came in
\* between, and the reply to BYE came after the session had ended
NoReplyWithoutRequestWitness ==
  /\ sessPc = "done"
  /\ Len(fired) = 5
  /\ trace[1].t = "send"
  /\ SentCmds[fired[5].d] = "BYE"
  /\ fired[5].at = Len(trace)
  /\ \E i \in 1..Len(trace) : startswith(trace[i].line, <<"D", " ">>)
  /\ \E i \in 1..Len(trace) : startswith(trace[i].line, <<"#">>)
  /\ assuan.dq = <<>>
  /\ ~crashed

\* --------------------------------- resolutions that share one event loop
\* Each resolution is a call of secretly with its own generator; all use the
\* same keyring and ask for the same (system, username).  A prompt session
\* touches only its own connection, so it is taken as one event: the moment
\* askForPassword returns or raises into its resolution.
Procs == 1..MaxProcs
Secrets == {<<"a">>, <<"b">>}

IdleWorld ==
  [assuan |-> NewAssuan, trace |-> <<>>, fired |-> <<>>, crashed |-> FALSE,
   sessPc |-> "none", awaiting |-> 0, sessResult |-> NoOutcome,
   pc |-> "start", store |-> <<>>, calls |-> <<>>, result |-> NoOutcome]

\* the i-th resolution, with the keyring as it is now
ProcWorld(i) == [procs[i] EXCEPT !.store = store]

PutProc(i, w) ==
  /\ procs' = [procs EXCEPT ![i] = [w EXCEPT !.store = <<>>]]
  /\ store' = w.store

InitConc ==
  /\ assuan = NewAssuan
  /\ trace = <<>>
  /\ fired = <<>>
  /\ crashed = FALSE
  /\ sessPc = "none"
  /\ awaiting = 0
  /\ sessResult = NoOutcome
  /\ calls = <<>>
  /\ result = NoOutcome
  /\ toClient = <<>>
  /\ peerRead = 0
  /\ peerGreeted = FALSE
  /\ noise = 0
  /\ pc = "none"
  /\ transport = "none"
  /\ encodes = [prompt |-> TRUE, description |-> TRUE]
  /\ payload = <<>>
  /\ key = "k1"
  /\ store = [j \in Keys |-> IF j = key THEN None ELSE <<"other">>]
  /\ pinentries = <<Found>>
  /\ action \in Actions
  /\ procs = [i \in Procs |-> IdleWorld]

concFrame ==
  UNCHANGED <<assuan, trace, fired, crashed, sessPc, awaiting, sessResult, pc,
              calls, result, transport, peerVars, key, pinentries, action,
              encodes, payload>>

\* secretly is called for the i-th resolution
ProcStarts(i) ==
  /\ procs[i].pc = "start"
  /\ PutProc(i, secretly_loop(ProcWorld(i)))
  /\ concFrame

\* the prompt session of the i-th resolution returns a secret
ProcPromptReturns(i) ==
  /\ procs[i].pc = "prompting"
  /\ \E secret \in Secrets :
       PutProc(i, secretly_resume([ProcWorld(i) EXCEPT !.sessPc = "done",
                                                      !.sessResult = Return(secret)],
                                  Return(secret)))
  /\ concFrame

\* the prompt session of the i-th resolution fails
ProcPromptRaises(i) ==
  /\ procs[i].pc = "prompting"
  /\ LET outcome == Raise("AssuanError", ERRLine)
     IN PutProc(i, secretly_resume([ProcWorld(i) EXCEPT !.sessPc = "done",
                                                       !.sessResult = outcome],
                                   outcome))
  /\ concFrame

\* the Deferred of the asynchronous action of the i-th resolution fires
ProcActionFires(i) ==
  /\ procs[i].pc = "acting"
  /\ PutProc(i, secretly_fires(ProcWorld(i), action.outcome))
  /\ concFrame

NextConc ==
  \E i \in Procs :
    \/ ProcStarts(i)
    \/ ProcPromptReturns(i)
    \/ ProcPromptRaises(i)
    \/ ProcActionFires(i)

SpecConc == InitConc /\ [][NextConc]_vars

\* C20: of resolutions that run concurrently for one (system, username) on a
\* store that starts empty, each one whose prompt session returned a secret
\* calls its action once, with that secret, whatever the others do in
\* between: set_password, the next get_password and the call of the action
\* are one step of the event loop.
OwnSecret ==
  \A i \in Procs :
    procs[i].sessResult.kind = "return" =>
      /\ CallsOf(procs[i].calls, "action") =
           <<Call("action", key, procs[i].sessResult)>>
      /\ CallsOf(procs[i].calls, "set_password") =
           <<Call("set_password", key, procs[i].sessResult)>>

\* two resolutions prompted at the same time, got different secrets, and
\* each called its action with its own
OwnSecretWitness ==
  /\ procs[1].sessResult = Return(<<"a">>)
  /\ procs[2].sessResult = Return(<<"b">>)
  /\ procs[1].calls[Len(procs[1].calls)] = Call("action", key, Return(<<"a">>))
  /\ procs[2].calls[Len(procs[2].calls)] = Call("action", key, Return(<<"b">>))
  /\ Len(CallsOf(procs[1].calls, "spawnProcess")) = 1
  /\ Len(CallsOf(procs[2].calls, "spawnProcess")) = 1
  /\ store[key] = <<"a">>

\* ------------------------------------------------------ the escape round trip
CodecAlphabet == {"%", "CR", "LF", "0", "2", "5", "A", "D"}

InitCodec ==
  /\ InitIdle
  /\ pc = "none"
  /\ store = <<>>
  /\ transport = "open"
  /\ key = 0
  /\ pinentries = <<>>
  /\ action = NoOutcome
  /\ encodes = <<>>
  /\ payload \in SeqsUpTo(CodecAlphabet, MaxLen)

\* the greeting arrives
CodecGreeting ==
  /\ trace = <<>>
  /\ Set(receive(World, OKLine))
  /\ UNCHANGED <<transport, peerVars, inputVars>>

\* the client issues a command
CodecIssue ==
  /\ Len(trace) = 1
  /\ Set(sendCommand(World, "CMD", <<>>))
  /\ UNCHANGED <<transport, peerVars, inputVars>>

\* the peer sends the payload escaped in one D line
CodecData ==
  /\ Len(trace) = 2
  /\ Set(receive(World, <<"D", " ">> \o escape(payload)))
  /\ UNCHANGED <<transport, peerVars, inputVars>>

\* the peer ends the reply
CodecOK ==
  /\ Len(trace) = 3
  /\ Set(receive(World, OKLine))
  /\ UNCHANGED <<transport, peerVars, inputVars>>

NextCodec == CodecGreeting \/ CodecIssue \/ CodecData \/ CodecOK

SpecCodec == InitCodec /\ [][NextCodec]_vars

\* C10: a payload escaped by the peer (% as %25, CR as %0A, LF as %0D) and
\* unescaped by lineReceived is the original payload: the buffered fragment
\* and the data of the response are the payload.
DecodeRoundTrip ==
  /\ unescape(escape(payload)) = payload
  /\ Len(trace) = 3 => assuan.bufferedData = <<payload>>
  /\ fired # <<>> => fired[1].data = payload

\* a payload that spells an escape has made the round trip
DecodeRoundTripWitness ==
  /\ payload = <<"%", "0", "A">>
  /\ fired # <<>>
  /\ fired[1].data = payload

====
